---- MODULE Spec2Model ----
(***************************************************************************)
(* Model of the MAITRIX bot (src/bot.py, src/utils.py, src/config.py,      *)
(* src/main.py): one account that builds, signs and broadcasts approve,    *)
(* mint, swap and stake transactions, waits for each to be confirmed, and  *)
(* drives the two playbooks run_auto_cycle and run_maitrix_sequence.       *)
(*                                                                         *)
(* Amounts are in base units of a token with Decimals decimal places; the  *)
(* chain (balances, allowances, receipts, block height) is the environment *)
(* of the program and moves by the actions MineTx and MineBlock.           *)
(***************************************************************************)
EXTENDS Integers, Sequences, FiniteSets, TLC

(***************************************************************************)
(* Bounds of the model.                                                    *)
(***************************************************************************)
\* decimal places of every token (18 on the real chain)
Decimals == 1
\* seconds one RPC round trip of a poll takes, on top of the sleep
RpcLatency == 145
\* allowance a spender may already hold when the run starts
MaxAllowance == 5

(***************************************************************************)
(* src/config.py                                                           *)
(***************************************************************************)
TX_CONFIRMATIONS == 2
TX_TIMEOUT == 300

\* keys of TOKEN_ADDRESSES, in dictionary order
TOKEN_ADDRESSES == <<"ATH", "USDe", "LVLUSD", "VANA", "AUSD", "VUSD", "VANAUSD">>
Tokens == {TOKEN_ADDRESSES[i] : i \in 1..Len(TOKEN_ADDRESSES)}

\* the address of each token contract (shortened)
TokenAddress ==
  [t \in Tokens |->
     CASE t = "ATH"     -> "0x1428"
       [] t = "USDe"    -> "0xf4be"
       [] t = "LVLUSD"  -> "0x8802"
       [] t = "VANA"    -> "0xbebf"
       [] t = "AUSD"    -> "0x78de"
       [] t = "VUSD"    -> "0xc14a"
       [] t = "VANAUSD" -> "0x46a6"]

\* keys of STAKING_ADDRESSES, in dictionary order, and their addresses
StakingKeys == <<"AUSD", "VUSD", "POOL1", "POOL2", "POOL3">>
STAKING_ADDRESSES ==
  [k \in {StakingKeys[i] : i \in 1..Len(StakingKeys)} |->
     CASE k = "AUSD"  -> "0x054d"
       [] k = "VUSD"  -> "0x5bb9"
       [] k = "POOL1" -> "0x3988"
       [] k = "POOL2" -> "0x5de3"
       [] k = "POOL3" -> "0x2608"]

SWAP_ADDRESSES ==
  [k \in {"ATH_TO_AUSD", "VANA_TO_VANAUSD", "MINT_SPECIAL"} |->
     CASE k = "ATH_TO_AUSD"     -> "0x2cFD"
       [] k = "VANA_TO_VANAUSD" -> "0xEfbA"
       [] k = "MINT_SPECIAL"    -> "0x3dca"]

\* SWAP_PAIRS, in dictionary order: <<from_token, to_token>>
SwapPairKeys == <<"ATH", "VANA">>
SWAP_PAIRS ==
  [t \in {"ATH", "VANA"} |-> IF t = "ATH" THEN "AUSD" ELSE "VANAUSD"]

\* variant: no token has a minimum, so no balance is topped up
MIN_BALANCE_Unset == [t \in Tokens |-> 0 * 10^Decimals]

MIN_BALANCE == [t \in Tokens |-> 1 * 10^Decimals]

\* SWAP_PERCENTAGE = 0.3 and STAKE_PERCENTAGE = 0.5, in tenths
SWAP_PERCENTAGE == 3
STAKE_PERCENTAGE == 5


(***************************************************************************)
(* int(balance * p) for p = tenths/10: the product is a float that int()   *)
(* truncates; on the balances of this model it equals the exact floor.     *)
(***************************************************************************)
PercentOf(balance, tenths) == (balance * tenths) \div 10

\* f"{from_token}_TO_{to_token}"
SwapKey(from_token, to_token) ==
  CASE from_token = "ATH" /\ to_token = "AUSD"     -> "ATH_TO_AUSD"
    [] from_token = "VANA" /\ to_token = "VANAUSD" -> "VANA_TO_VANAUSD"
    [] OTHER                                       -> "NO_ROUTER"

\* the router function swap_token selects for a pair
SwapFunction(from_token, to_token) ==
  CASE from_token = "ATH" /\ to_token = "AUSD"     -> "swapATHtoAUSD"
    [] from_token = "VANA" /\ to_token = "VANAUSD" -> "swapVANAtoVANAUSD"
    [] OTHER                                       -> "mint"

(***************************************************************************)
(* The playbooks as ordered step tables.  op is the statement of the step, *)
(* token the key it looks up in token_balances, to the destination token   *)
(* (swap), the spender (approve) or the pool key (pool_stake), tenths the  *)
(* share of the cached balance the step moves.                             *)
(***************************************************************************)
StepRec(op, token, to, tenths) ==
  [op |-> op, token |-> token, to |-> to, tenths |-> tenths]

RefreshStep == StepRec("refresh", "-", "-", 0)

\* variant: the stake phase starts without a refresh of the cache
AutoSteps_NoRefreshBeforeStake ==
  <<RefreshStep>>
  \o [i \in 1..Len(TOKEN_ADDRESSES) |->
        StepRec("auto_mint", TOKEN_ADDRESSES[i], "-", 0)]
  \o <<RefreshStep>>
  \o [i \in 1..Len(SwapPairKeys) |->
        StepRec("auto_swap", SwapPairKeys[i], SWAP_PAIRS[SwapPairKeys[i]],
                SWAP_PERCENTAGE)]
  \o [i \in 1..Len(StakingKeys) |->
        StepRec("auto_stake", StakingKeys[i], "-", STAKE_PERCENTAGE)]
  \o <<RefreshStep>>

\* run_auto_cycle
AutoSteps ==
  <<RefreshStep>>
  \o [i \in 1..Len(TOKEN_ADDRESSES) |->
        StepRec("auto_mint", TOKEN_ADDRESSES[i], "-", 0)]
  \o <<RefreshStep>>
  \o [i \in 1..Len(SwapPairKeys) |->
        StepRec("auto_swap", SwapPairKeys[i], SWAP_PAIRS[SwapPairKeys[i]],
                SWAP_PERCENTAGE)]
  \o <<RefreshStep>>
  \o [i \in 1..Len(StakingKeys) |->
        StepRec("auto_stake", StakingKeys[i], "-", STAKE_PERCENTAGE)]
  \o <<RefreshStep>>

\* variant: the swap of ATH comes before the stake of AUSD
MaitrixSteps_SwapBeforeStake ==
  << RefreshStep,
     StepRec("approve", "VANA", SWAP_ADDRESSES["VANA_TO_VANAUSD"], 4),
     StepRec("swap", "ATH", "AUSD", 2),
     StepRec("stake", "AUSD", "-", 5),
     RefreshStep,
     StepRec("swap", "VANA", "VANAUSD", 2),
     RefreshStep,
     StepRec("stake", "VUSD", "-", 5),
     StepRec("stake", "AUSD", "-", 5),
     StepRec("pool_stake", "ATH", "POOL1", 1),
     StepRec("pool_stake", "ATH", "POOL2", 1),
     StepRec("approve", "VANAUSD", TokenAddress["VANAUSD"], 5),
     StepRec("pool_stake", "ATH", "POOL3", 1),
     RefreshStep >>

\* variant: the cache is refreshed once more before the stake in POOL3
MaitrixSteps_RefreshBeforePool3 ==
  << RefreshStep,
     StepRec("approve", "VANA", SWAP_ADDRESSES["VANA_TO_VANAUSD"], 4),
     StepRec("stake", "AUSD", "-", 5),
     StepRec("swap", "ATH", "AUSD", 2),
     RefreshStep,
     StepRec("swap", "VANA", "VANAUSD", 2),
     RefreshStep,
     StepRec("stake", "VUSD", "-", 5),
     StepRec("stake", "AUSD", "-", 5),
     StepRec("pool_stake", "ATH", "POOL1", 1),
     StepRec("pool_stake", "ATH", "POOL2", 1),
     StepRec("approve", "VANAUSD", TokenAddress["VANAUSD"], 5),
     RefreshStep,
     StepRec("pool_stake", "ATH", "POOL3", 1),
     RefreshStep >>

\* run_maitrix_sequence
\* variant: step 4 swaps half of the VANA balance, more than step 1 approved
MaitrixSteps_SwapHalfOfVana ==
  << RefreshStep,
     StepRec("approve", "VANA", SWAP_ADDRESSES["VANA_TO_VANAUSD"], 4),
     StepRec("stake", "AUSD", "-", 5),
     StepRec("swap", "ATH", "AUSD", 2),
     RefreshStep,
     StepRec("swap", "VANA", "VANAUSD", 5),
     RefreshStep,
     StepRec("stake", "VUSD", "-", 5),
     StepRec("stake", "AUSD", "-", 5),
     StepRec("pool_stake", "ATH", "POOL1", 1),
     StepRec("pool_stake", "ATH", "POOL2", 1),
     StepRec("approve", "VANAUSD", TokenAddress["VANAUSD"], 5),
     StepRec("pool_stake", "ATH", "POOL3", 1),
     RefreshStep >>

MaitrixSteps ==
  << RefreshStep,
     StepRec("approve", "VANA", SWAP_ADDRESSES["VANA_TO_VANAUSD"], 4),
     StepRec("stake", "AUSD", "-", 5),
     StepRec("swap", "ATH", "AUSD", 2),
     RefreshStep,
     StepRec("swap", "VANA", "VANAUSD", 2),
     RefreshStep,
     StepRec("stake", "VUSD", "-", 5),
     StepRec("stake", "AUSD", "-", 5),
     StepRec("pool_stake", "ATH", "POOL1", 1),
     StepRec("pool_stake", "ATH", "POOL2", 1),
     StepRec("approve", "VANAUSD", TokenAddress["VANAUSD"], 5),
     StepRec("pool_stake", "ATH", "POOL3", 1),
     RefreshStep >>

\* the balance command of main(): one refresh
BalanceSteps == <<RefreshStep>>

\* run_single_operation: the balance refresh, then the operation
SingleSteps == <<RefreshStep, StepRec("single", "-", "-", 0)>>

\* the <<token, spender>> pairs approve_token is called with: the router of
\* each swap pair, the pool of each stakable token, the three named pools
\* for ATH, and the VANAUSD contract itself for VANAUSD (step 9)
AllowancePairs ==
  {<<t, SWAP_ADDRESSES[SwapKey(t, SWAP_PAIRS[t])]>> : t \in DOMAIN SWAP_PAIRS}
    \cup {<<t, STAKING_ADDRESSES[t]>> : t \in Tokens \cap DOMAIN STAKING_ADDRESSES}
    \cup {<<"ATH", STAKING_ADDRESSES[k]>> : k \in {"POOL1", "POOL2", "POOL3"}}
    \cup {<<"VANAUSD", TokenAddress["VANAUSD"]>>}

Operations == {"mint", "swap", "stake"}
Playbooks == {"auto", "maitrix"}

(***************************************************************************)
(* State.                                                                  *)
(***************************************************************************)
VARIABLES
  command,         \* the command of main(): "none", "auto", "maitrix" or an operation
  args,            \* the token and amount arguments of a single operation
  pc,              \* "idle", "step", "approve", "act", "wait", "done", "failed"
  step,            \* the step of the playbook the bot is at
  cur,             \* the primitive operation in progress
  token_balances,  \* MaitrixBot.token_balances, the cached balances
  results,         \* the report of the playbook
  error,           \* the exception that ended the run, or "none"
  elapsed,         \* time.time() - start_time of the wait in progress
  outcome,         \* how the last wait_for_transaction ended
  txs,             \* every transaction broadcast, in order; its index is its hash
  balance,         \* chain: balanceOf(self.address) of each token
  allowance,       \* chain: allowance(self.address, spender), by <<token, spender>>
  block_number     \* chain: height of the latest block

vars == <<command, args, pc, step, cur, token_balances, results, error,
          elapsed, outcome, txs, balance, allowance, block_number>>

bot == <<command, args, pc, step, cur, token_balances, results, error,
         elapsed, outcome>>
chain == <<balance, allowance, block_number>>

NoAmount == -1
None == 0
NoOp == [kind |-> "none", fn |-> "-", token |-> "-", to |-> "-",
         spender |-> "-", amount |-> 0, list |-> "-", to_token |-> "-",
         approve_tx |-> 0, allowance_read |-> 0]

Steps ==
  CASE command = "auto"    -> AutoSteps
    [] command = "maitrix" -> MaitrixSteps
    [] command = "balance" -> BalanceSteps
    [] OTHER               -> SingleSteps

\* balances the account may hold when the run starts
SmallBalance == 1
BalanceValues == {0, SmallBalance, 10^Decimals, 2 * 10^Decimals}
SourceTokens == {"ATH", "VANA", "USDe"}
InitBalances ==
  {[t \in Tokens |-> IF t \in SourceTokens THEN a ELSE b] :
     a \in BalanceValues, b \in BalanceValues}

\* amounts a single operation may be given on the command line
SingleAmounts == {NoAmount, 3}

Init ==
  /\ command = "none"
  /\ args = [token |-> "-", amount |-> NoAmount]
  /\ pc = "idle"
  /\ step = 0
  /\ cur = NoOp
  /\ balance \in InitBalances
  /\ token_balances = balance          \* __init__ calls update_all_balances
  /\ results = [k \in {"mint", "swap", "stake"} |-> <<>>]
  /\ error = "none"
  /\ elapsed = 0
  /\ outcome = "none"
  /\ txs = <<>>
  /\ \E a \in {0, MaxAllowance} :
       allowance = [p \in AllowancePairs |-> a]
  /\ block_number = 1

(***************************************************************************)
(* Helpers of the primitive operations.                                    *)
(***************************************************************************)
Op(kind, fn, token, to, spender, amount, list, to_token) ==
  [kind |-> kind, fn |-> fn, token |-> token, to |-> to, spender |-> spender,
   amount |-> amount, list |-> list, to_token |-> to_token,
   approve_tx |-> 0, allowance_read |-> 0]

\* variant: the allowance check skips the approve only above the amount
ApprovalNeeded_Strict(current_allowance, amount) == ~(current_allowance > amount)

\* approve_token: "if current_allowance >= amount: return None"
ApprovalNeeded(current_allowance, amount) == ~(current_allowance >= amount)

\* variant: approve tops the allowance up by the missing difference
ApproveAmount_Difference(current_allowance, amount) == amount - current_allowance

\* approve_token: the amount argument of functions.approve(spender, amount)
ApproveAmount(current_allowance, amount) == amount

\* variant: the timeout fires as soon as the window is reached
TimedOut_Inclusive(t) == t >= TX_TIMEOUT

\* wait_for_transaction: "if time.time() - start_time > TX_TIMEOUT"
TimedOut(t) == t > TX_TIMEOUT

\* variant: the status of the receipt is not looked at
ReceiptFailed_Never(receipt) == FALSE

\* variant: the status is looked at only once the receipt is deep enough
ReceiptFailed_AfterDepth(receipt) ==
  /\ receipt.status = "failed"
  /\ block_number - receipt.blockNumber >= TX_CONFIRMATIONS

\* wait_for_transaction: "if receipt['status'] == 0"
ReceiptFailed(receipt) == receipt.status = "failed"

\* variant: a mined receipt is returned at any depth
DeepEnough_Mined(current_block, receipt_block, confirmations) ==
  current_block - receipt_block >= 0

\* variant: the depth counts the block of the receipt itself
DeepEnough_OffByOne(current_block, receipt_block, confirmations) ==
  current_block - receipt_block + 1 >= confirmations

\* wait_for_transaction: "if current_block - receipt['blockNumber'] >= confirmations"
DeepEnough(current_block, receipt_block, confirmations) ==
  current_block - receipt_block >= confirmations

\* the transaction the bot broadcast last: the one wait_for_transaction polls
Awaited == txs[Len(txs)]

\* variant: the count comes from a node one transaction behind
get_transaction_count_Stale ==
  Cardinality({i \in 1..(Len(txs) - 1) : txs[i].status # "pending"})

\* w3.eth.get_transaction_count(address): the transactions of the account
\* included in a block so far (reverted ones consume their nonce too)
get_transaction_count ==
  Cardinality({i \in 1..Len(txs) : txs[i].status # "pending"})

\* utils.build_tx_params: the parameters with the configured gas price and
\* gas limit (imported by bot.py)
build_tx_params ==
  [gasPrice |-> "GAS_PRICE_GWEI", gas |-> "GAS_LIMIT",
   nonce |-> get_transaction_count]

\* the parameters bot.py hands to build_transaction: "from" and "nonce"
TxParams == [nonce |-> get_transaction_count]

\* ContractFunction.build_transaction(params): what the caller leaves out
\* is filled in by web3, the gas from eth_estimateGas and the price from
\* the node
build_transaction(params) ==
  [nonce |-> params.nonce,
   gas |-> IF "gas" \in DOMAIN params THEN params.gas ELSE "estimate_gas",
   gasPrice |-> IF "gasPrice" \in DOMAIN params
                  THEN params.gasPrice ELSE "node"]

\* a transaction as broadcast: nonce read from the chain at build time
NewTx(fn, to, token, spender, amount) ==
  [fn |-> fn, to |-> to, token |-> token, spender |-> spender,
   amount |-> amount,
   nonce |-> build_transaction(TxParams).nonce,
   gas |-> build_transaction(TxParams).gas,
   gasPrice |-> build_transaction(TxParams).gasPrice,
   status |-> "pending", blockNumber |-> 0, step |-> step,
   approve_tx |-> cur.approve_tx, allowance_read |-> cur.allowance_read]

\* the entry a playbook appends to its report for a confirmed transaction
Entry(o, tx_hash) ==
  [token |-> o.token,
   to |-> IF o.kind = "swap" THEN o.to_token ELSE o.spender,
   amount |-> o.amount, tx_hash |-> tx_hash]

\* the playbook goes on with its next statement
NextStep ==
  /\ pc' = "step"
  /\ step' = step + 1
  /\ cur' = NoOp

\* variant: swap_token and stake_token go on to the act when their approve
\* raises
Raise_ApproveIgnored(e) ==
  /\ pc' = IF pc = "wait" /\ Awaited.fn = "approve" /\ cur.kind # "approve"
             THEN "act" ELSE "failed"
  /\ error' = e

\* an exception leaves the playbook or operation and reaches main()
Raise(e) ==
  /\ pc' = "failed"
  /\ error' = e

\* variant: the playbook records the step without testing the result
ReturnToCaller_Unchecked(r) ==
  IF command \in Playbooks
    THEN /\ NextStep
         /\ results' = IF cur.list = "-"
                         THEN results
                         ELSE [results EXCEPT
                                 ![cur.list] = Append(@, Entry(cur, r))]
    ELSE /\ pc' = "done"
         /\ UNCHANGED <<step, cur, results>>

\* a primitive operation returns r to its caller: the hash of the confirmed
\* transaction, or None
ReturnToCaller(r) ==
  IF command \in Playbooks
    THEN /\ NextStep
         /\ results' = IF r = None \/ cur.list = "-"
                         THEN results
                         ELSE [results EXCEPT
                                 ![cur.list] = Append(@, Entry(cur, r))]
    ELSE /\ pc' = "done"
         /\ UNCHANGED <<step, cur, results>>

\* swap_token up to its call of approve_token
SwapToken(from_token, to_token, amount) ==
  IF SwapKey(from_token, to_token) \notin DOMAIN SWAP_ADDRESSES
    THEN /\ ReturnToCaller(None)
    ELSE /\ cur' = Op("swap", SwapFunction(from_token, to_token), from_token,
                      SWAP_ADDRESSES[SwapKey(from_token, to_token)],
                      SWAP_ADDRESSES[SwapKey(from_token, to_token)],
                      amount, "swap", to_token)
         /\ pc' = "approve"
         /\ UNCHANGED <<step, results>>

\* variant: a token without a pool of its own is staked in POOL1
StakeToken_PoolFallback(token_symbol, amount) ==
  LET key == IF token_symbol \in DOMAIN STAKING_ADDRESSES
               THEN token_symbol ELSE "POOL1"
  IN  IF <<token_symbol, STAKING_ADDRESSES[key]>> \notin AllowancePairs
        THEN /\ ReturnToCaller(None)
        ELSE /\ cur' = Op("stake", "stake", token_symbol,
                          STAKING_ADDRESSES[key], STAKING_ADDRESSES[key],
                          amount, "stake", "-")
             /\ pc' = "approve"
             /\ UNCHANGED <<step, results>>

\* stake_token up to its call of approve_token
StakeToken(token_symbol, amount) ==
  IF token_symbol \notin DOMAIN STAKING_ADDRESSES
    THEN /\ ReturnToCaller(None)
    ELSE /\ cur' = Op("stake", "stake", token_symbol,
                      STAKING_ADDRESSES[token_symbol],
                      STAKING_ADDRESSES[token_symbol], amount, "stake", "-")
         /\ pc' = "approve"
         /\ UNCHANGED <<step, results>>

\* mint_token up to its build of the transaction
MintToken(token_symbol, amount) ==
  /\ cur' = Op("mint", "mint", token_symbol, TokenAddress[token_symbol], "-",
               amount, "mint", "-")
  /\ pc' = "act"
  /\ UNCHANGED <<step, results>>

AtStep(op) ==
  /\ pc = "step"
  /\ step \in 1..Len(Steps)
  /\ Steps[step].op = op

(***************************************************************************)
(* main(): the command.                                                    *)
(***************************************************************************)
StartAuto ==
  /\ pc = "idle"
  /\ command' = "auto"
  /\ results' = [k \in {"mint", "swap", "stake"} |-> <<>>]
  /\ pc' = "step"
  /\ step' = 1
  /\ UNCHANGED <<args, cur, token_balances, error, elapsed, outcome, txs, chain>>

StartMaitrix ==
  /\ pc = "idle"
  /\ command' = "maitrix"
  /\ results' = [k \in {"approve", "swap", "stake"} |-> <<>>]
  /\ pc' = "step"
  /\ step' = 1
  /\ UNCHANGED <<args, cur, token_balances, error, elapsed, outcome, txs, chain>>

StartBalance ==
  /\ pc = "idle"
  /\ command' = "balance"
  /\ pc' = "step"
  /\ step' = 1
  /\ UNCHANGED <<args, cur, token_balances, results, error, elapsed, outcome,
                 txs, chain>>

StartSingle ==
  /\ pc = "idle"
  /\ \E operation \in Operations, token \in Tokens, amount \in SingleAmounts :
       /\ command' = operation
       /\ args' = [token |-> token, amount |-> amount]
  /\ pc' = "step"
  /\ step' = 1
  /\ UNCHANGED <<cur, token_balances, results, error, elapsed, outcome, txs, chain>>

(***************************************************************************)
(* MaitrixBot: the statements of the playbooks.                            *)
(***************************************************************************)
\* utils.format_amount: str(Decimal(amount) / Decimal(10 ** decimals)), as
\* the whole part and the fraction
format_amount(amount, decimals) ==
  [whole |-> amount \div 10^decimals, fraction |-> amount % 10^decimals]

\* variant: a read adds what it finds to what the cache holds
update_all_balances_Accumulating ==
  /\ AtStep("refresh")
  /\ token_balances' = [t \in Tokens |-> token_balances[t] + balance[t]]
  /\ NextStep
  /\ UNCHANGED <<command, args, results, error, elapsed, outcome, txs, chain>>

update_all_balances ==
  /\ AtStep("refresh")
  /\ token_balances' = balance
  /\ NextStep
  /\ UNCHANGED <<command, args, results, error, elapsed, outcome, txs, chain>>

\* variant: a balance equal to the minimum is topped up as well
MintNeeded_Inclusive(token_balance, min_balance) == token_balance <= min_balance

\* run_auto_cycle: "if balance < min_balance"
MintNeeded(token_balance, min_balance) == token_balance < min_balance

\* run_auto_cycle, 1. Mint tokens if balance is low
AutoMint ==
  /\ AtStep("auto_mint")
  /\ LET token_symbol == Steps[step].token
         min_balance == MIN_BALANCE[token_symbol]
     IN  IF MintNeeded(token_balances[token_symbol], min_balance)
           THEN MintToken(token_symbol, min_balance * 2)
           ELSE NextStep /\ UNCHANGED results
  /\ UNCHANGED <<command, args, token_balances, error, elapsed, outcome, txs, chain>>

\* run_auto_cycle, 2. Swap tokens
AutoSwap ==
  /\ AtStep("auto_swap")
  /\ LET from_token == Steps[step].token
         to_token == Steps[step].to
     IN  IF token_balances[from_token] > 0
           THEN SwapToken(from_token, to_token,
                          PercentOf(token_balances[from_token], Steps[step].tenths))
           ELSE NextStep /\ UNCHANGED results
  /\ UNCHANGED <<command, args, token_balances, error, elapsed, outcome, txs, chain>>

\* run_auto_cycle, 3. Stake tokens: the loop runs over the keys of
\* STAKING_ADDRESSES and looks each up in token_balances
AutoStake ==
  /\ AtStep("auto_stake")
  /\ LET token_symbol == Steps[step].token
     IN  IF token_symbol \notin DOMAIN token_balances
           THEN Raise("KeyError") /\ UNCHANGED <<step, cur, results>>
           ELSE /\ UNCHANGED error
                /\ IF token_balances[token_symbol] > 0
                     THEN StakeToken(token_symbol,
                                     PercentOf(token_balances[token_symbol],
                                               Steps[step].tenths))
                     ELSE NextStep /\ UNCHANGED results
  /\ UNCHANGED <<command, args, token_balances, elapsed, outcome, txs, chain>>

\* variant: a step runs whenever the cached balance is positive
MaitrixStepRuns_OnBalance(amount, cached_balance) == cached_balance > 0

\* run_maitrix_sequence: "if vana_amount > 0" and the like tests of the steps
MaitrixStepRuns(amount, cached_balance) == amount > 0

\* run_maitrix_sequence, steps 1 and 9: approve_token alone
MaitrixApprove ==
  /\ AtStep("approve")
  /\ LET s == Steps[step]
         amount == PercentOf(token_balances[s.token], s.tenths)
     IN  IF MaitrixStepRuns(amount, token_balances[s.token])
           THEN /\ cur' = Op("approve", "approve", s.token,
                             TokenAddress[s.token], s.to, amount, "approve", "-")
                /\ pc' = "approve"
                /\ UNCHANGED step
           ELSE NextStep
  /\ UNCHANGED <<command, args, token_balances, results, error, elapsed,
                 outcome, txs, chain>>

\* run_maitrix_sequence, steps 2, 5 and 6: stake_token
MaitrixStake ==
  /\ AtStep("stake")
  /\ LET s == Steps[step]
         amount == PercentOf(token_balances[s.token], s.tenths)
     IN  IF MaitrixStepRuns(amount, token_balances[s.token])
           THEN StakeToken(s.token, amount)
           ELSE NextStep /\ UNCHANGED results
  /\ UNCHANGED <<command, args, token_balances, error, elapsed, outcome, txs, chain>>

\* run_maitrix_sequence, steps 3 and 4: swap_token
MaitrixSwap ==
  /\ AtStep("swap")
  /\ LET s == Steps[step]
         amount == PercentOf(token_balances[s.token], s.tenths)
     IN  IF MaitrixStepRuns(amount, token_balances[s.token])
           THEN SwapToken(s.token, s.to, amount)
           ELSE NextStep /\ UNCHANGED results
  /\ UNCHANGED <<command, args, token_balances, error, elapsed, outcome, txs, chain>>

\* run_maitrix_sequence, steps 7, 8 and 10: approve_token, then stake in the pool
MaitrixPoolStake ==
  /\ AtStep("pool_stake")
  /\ LET s == Steps[step]
         amount == PercentOf(token_balances[s.token], s.tenths)
     IN  IF MaitrixStepRuns(amount, token_balances[s.token])
           THEN /\ cur' = Op("stake", "stake", s.token, STAKING_ADDRESSES[s.to],
                             STAKING_ADDRESSES[s.to], amount, "stake", "-")
                /\ pc' = "approve"
                /\ UNCHANGED step
           ELSE NextStep
  /\ UNCHANGED <<command, args, token_balances, results, error, elapsed,
                 outcome, txs, chain>>

\* run_single_operation after its balance refresh
SingleOperation ==
  /\ AtStep("single")
  /\ LET token_symbol == args.token
         amount ==
           IF args.amount # NoAmount THEN args.amount
           ELSE IF command = "mint" THEN MIN_BALANCE[token_symbol] * 2
           ELSE PercentOf(token_balances[token_symbol],
                          IF command = "swap" THEN SWAP_PERCENTAGE
                                              ELSE STAKE_PERCENTAGE)
     IN  CASE command = "mint" ->
                MintToken(token_symbol, amount) /\ UNCHANGED error
           [] command = "swap" ->
                IF token_symbol \notin DOMAIN SWAP_PAIRS
                  THEN Raise("ValueError") /\ UNCHANGED <<step, cur, results>>
                  ELSE /\ SwapToken(token_symbol, SWAP_PAIRS[token_symbol], amount)
                       /\ UNCHANGED error
           [] OTHER ->
                StakeToken(token_symbol, amount) /\ UNCHANGED error
  /\ UNCHANGED <<command, args, token_balances, elapsed, outcome, txs, chain>>

\* the playbook returns its report; main() exits with 0
Return ==
  /\ pc = "step"
  /\ step = Len(Steps) + 1
  /\ pc' = "done"
  /\ UNCHANGED <<command, args, step, cur, token_balances, results, error,
                 elapsed, outcome, txs, chain>>

(***************************************************************************)
(* approve_token, and the build and broadcast of the act.                  *)
(***************************************************************************)
\* approve_token finds the allowance sufficient and returns None
ApproveNotNeeded ==
  /\ pc = "approve"
  /\ ~ApprovalNeeded(allowance[<<cur.token, cur.spender>>], cur.amount)
  /\ IF cur.kind = "approve"
       THEN ReturnToCaller(None)
       ELSE /\ pc' = "act"
            /\ cur' = [cur EXCEPT !.approve_tx = 0,
                         !.allowance_read = allowance[<<cur.token, cur.spender>>]]
            /\ UNCHANGED <<step, results>>
  /\ UNCHANGED <<command, args, token_balances, error, elapsed, outcome, txs, chain>>

\* approve_token builds the approve call and hands it to send_transaction
ApproveSend ==
  /\ pc = "approve"
  /\ ApprovalNeeded(allowance[<<cur.token, cur.spender>>], cur.amount)
  /\ txs' = Append(txs, NewTx("approve", TokenAddress[cur.token], cur.token,
                              cur.spender,
                              ApproveAmount(allowance[<<cur.token, cur.spender>>],
                                            cur.amount)))
  /\ cur' = [cur EXCEPT !.approve_tx = Len(txs) + 1,
               !.allowance_read = allowance[<<cur.token, cur.spender>>]]
  /\ pc' = "wait"
  /\ elapsed' = 0
  /\ outcome' = "none"
  /\ UNCHANGED <<command, args, step, token_balances, results, error, chain>>

\* mint_token, swap_token, stake_token and the pool stakes build the call
\* and hand it to send_transaction
ActSend ==
  /\ pc = "act"
  /\ txs' = Append(txs, NewTx(cur.fn, cur.to, cur.token, "-", cur.amount))
  /\ pc' = "wait"
  /\ elapsed' = 0
  /\ outcome' = "none"
  /\ UNCHANGED <<command, args, step, cur, token_balances, results, error, chain>>

(***************************************************************************)
(* wait_for_transaction: one action per way through the loop body.         *)
(***************************************************************************)
\* variant: the clock does not advance between two polls
Sleep_Frozen(seconds) == elapsed' = elapsed

\* time.sleep(seconds) and the RPC calls of the next poll
Sleep(seconds) == elapsed' = elapsed + seconds + RpcLatency

WaitTimeout ==
  /\ pc = "wait"
  /\ TimedOut(elapsed)
  /\ outcome' = "TimedOut"
  /\ Raise("TimeoutError")
  /\ UNCHANGED <<command, args, step, cur, token_balances, results, elapsed,
                 txs, chain>>

\* variant: a transaction that is not found is broadcast again
PollPending_Resend ==
  /\ pc = "wait"
  /\ ~TimedOut(elapsed)
  /\ Awaited.status = "pending"
  /\ \E seconds \in {2, 5} : Sleep(seconds)
  /\ txs' = Append(txs, Awaited)
  /\ UNCHANGED <<command, args, pc, step, cur, token_balances, results, error,
                 outcome, chain>>

\* no receipt yet: None (sleep 2) or TransactionNotFound (sleep 5)
PollPending ==
  /\ pc = "wait"
  /\ ~TimedOut(elapsed)
  /\ Awaited.status = "pending"
  /\ \E seconds \in {2, 5} : Sleep(seconds)
  /\ UNCHANGED <<command, args, pc, step, cur, token_balances, results, error,
                 outcome, txs, chain>>

PollReverted ==
  /\ pc = "wait"
  /\ ~TimedOut(elapsed)
  /\ Awaited.status # "pending"
  /\ ReceiptFailed(Awaited)
  /\ outcome' = "Reverted"
  /\ Raise("ValueError")
  /\ UNCHANGED <<command, args, step, cur, token_balances, results, elapsed,
                 txs, chain>>

\* the receipt is returned: to swap_token or stake_token after their
\* approve, else through the primitive operation to the playbook or main()
PollConfirmed ==
  /\ pc = "wait"
  /\ ~TimedOut(elapsed)
  /\ Awaited.status # "pending"
  /\ ~ReceiptFailed(Awaited)
  /\ DeepEnough(block_number, Awaited.blockNumber, TX_CONFIRMATIONS)
  /\ outcome' = "Confirmed"
  /\ IF Awaited.fn = "approve" /\ cur.kind # "approve"
       THEN /\ pc' = "act"
            /\ UNCHANGED <<step, cur, results>>
       ELSE ReturnToCaller(Len(txs))
  /\ UNCHANGED <<command, args, token_balances, error, elapsed, txs, chain>>

PollShallow ==
  /\ pc = "wait"
  /\ ~TimedOut(elapsed)
  /\ Awaited.status # "pending"
  /\ ~ReceiptFailed(Awaited)
  /\ ~DeepEnough(block_number, Awaited.blockNumber, TX_CONFIRMATIONS)
  /\ Sleep(5)
  /\ UNCHANGED <<command, args, pc, step, cur, token_balances, results, error,
                 outcome, txs, chain>>

\* get_transaction_receipt or block_number raises something other than
\* TransactionNotFound: nothing catches it
PollRpcError ==
  /\ pc = "wait"
  /\ ~TimedOut(elapsed)
  /\ outcome' = "RpcError"
  /\ Raise("ConnectionError")
  /\ UNCHANGED <<command, args, step, cur, token_balances, results, elapsed,
                 txs, chain>>

(***************************************************************************)
(* The chain, as the bot observes it through its RPC calls.  A pending     *)
(* transaction is included in a block with status success or failure; an   *)
(* approve sets the allowance, a mint credits the token, a swap or stake   *)
(* spends balance and allowance and can succeed only when both suffice.    *)
(* Blocks are mined on top of the awaited transaction up to the required   *)
(* depth; there are no reorganisations.                                    *)
(***************************************************************************)
\* what a pending call needs to succeed
CanSucceed(tx) ==
  CASE tx.fn \in {"approve", "mint"} -> TRUE
    [] OTHER -> /\ balance[tx.token] >= tx.amount
                /\ allowance[<<tx.token, tx.to>>] >= tx.amount

\* the pending transaction is included in the next block
MineTx ==
  /\ pc = "wait"
  /\ Awaited.status = "pending"
  /\ block_number' = block_number + 1
  /\ \E ok \in {b \in BOOLEAN : b => CanSucceed(Awaited)} :
       LET tx == Awaited IN
       /\ txs' = [txs EXCEPT ![Len(txs)] =
                    [@ EXCEPT !.status = IF ok THEN "success" ELSE "failed",
                              !.blockNumber = block_number + 1]]
       /\ allowance' =
            IF ~ok THEN allowance
            ELSE IF tx.fn = "approve"
              THEN [allowance EXCEPT ![<<tx.token, tx.spender>>] = tx.amount]
            ELSE IF tx.fn = "mint" THEN allowance
            ELSE [allowance EXCEPT ![<<tx.token, tx.to>>] = @ - tx.amount]
       /\ balance' =
            IF ~ok \/ tx.fn = "approve" THEN balance
            ELSE IF tx.fn = "mint"
              THEN [balance EXCEPT ![tx.token] = @ + tx.amount]
            ELSE IF tx.fn = "stake"
              THEN [balance EXCEPT ![tx.token] = @ - tx.amount]
            ELSE [balance EXCEPT ![tx.token] = @ - tx.amount,
                                 ![cur.to_token] = @ + tx.amount]
  /\ UNCHANGED bot

\* a block is mined on top of the block of the awaited transaction
MineBlock ==
  /\ pc = "wait"
  /\ Awaited.status # "pending"
  /\ block_number - Awaited.blockNumber < TX_CONFIRMATIONS
  /\ block_number' = block_number + 1
  /\ UNCHANGED <<bot, txs, balance, allowance>>

Next ==
  \/ StartAuto \/ StartMaitrix \/ StartBalance \/ StartSingle
  \/ update_all_balances
  \/ AutoMint \/ AutoSwap \/ AutoStake
  \/ MaitrixApprove \/ MaitrixStake \/ MaitrixSwap \/ MaitrixPoolStake
  \/ SingleOperation
  \/ Return
  \/ ApproveNotNeeded \/ ApproveSend \/ ActSend
  \/ WaitTimeout \/ PollPending \/ PollReverted \/ PollConfirmed
  \/ PollShallow \/ PollRpcError
  \/ MineTx \/ MineBlock

Spec == Init /\ [][Next]_vars

\* wait_for_transaction is a sequential loop of one thread: its next
\* statement is always executed, whatever the chain does meanwhile (that an
\* RPC call fails is the choice of the network, never an obligation)
WaitLoop ==
  \/ WaitTimeout \/ PollPending \/ PollReverted \/ PollConfirmed
  \/ PollShallow

FairSpec == Spec /\ WF_vars(WaitLoop)

(***************************************************************************)
(* The primitive operations called directly, as a caller of the class may  *)
(* call them: swap_token for any pair of tokens, stake_token for any       *)
(* token.  The command line reaches swap_token only through SWAP_PAIRS.    *)
(***************************************************************************)
\* bot.swap_token(from_token, to_token, amount) or
\* bot.stake_token(token_symbol, amount)
CallPrimitive ==
  /\ pc = "idle"
  /\ \E operation \in {"swap", "stake"}, token \in Tokens, to_token \in Tokens,
        amount \in SingleAmounts \ {NoAmount} :
       /\ command' = operation
       /\ IF operation = "swap"
            THEN /\ args' = [token |-> token, to |-> to_token, amount |-> amount]
                 /\ SwapToken(token, to_token, amount)
            ELSE /\ args' = [token |-> token, to |-> "-", amount |-> amount]
                 /\ StakeToken(token, amount)
  /\ UNCHANGED <<token_balances, error, elapsed, outcome, txs, chain>>

ApiNext ==
  \/ CallPrimitive
  \/ ApproveNotNeeded \/ ApproveSend \/ ActSend
  \/ WaitTimeout \/ PollPending \/ PollReverted \/ PollConfirmed
  \/ PollShallow \/ PollRpcError
  \/ MineTx \/ MineBlock

ApiSpec == Init /\ [][ApiNext]_vars

(***************************************************************************)
(* Amounts at 18 decimals.  int(balance * SWAP_PERCENTAGE) is a product in *)
(* double precision: the balance is converted to the nearest double,       *)
(* multiplied by the double nearest to the percentage, the product is      *)
(* rounded to a double and then truncated.  Numbers wider than the         *)
(* integers of the model checker are sequences of bits, lowest bit first,  *)
(* without leading zeros (zero is the empty sequence).                     *)
(***************************************************************************)
\* decimal places of the tokens on the chain ("1 * 10**18  # 1 ATH")
WideDecimals == 18
\* whole tokens and smallest units ("dust") of the balances examined
WideTokens == {1, 10, 100}
WideDust == 4
\* significant bits of a double
DoublePrecision == 53

RECURSIVE Bits(_)
Bits(n) == IF n = 0 THEN <<>> ELSE <<n % 2>> \o Bits(n \div 2)

\* the bit of weight 2^(i-1), zero beyond the length
BitAt(a, i) == IF i \in 1..Len(a) THEN a[i] ELSE 0

\* without leading zeros
Normal(a) ==
  LET ones == {i \in 1..Len(a) : a[i] = 1}
  IN  IF ones = {}
        THEN <<>>
        ELSE SubSeq(a, 1, CHOOSE i \in ones : \A j \in ones : j <= i)

\* columns lo..hi of small numbers to bits, the carry passed upwards; the
\* range is halved to keep the evaluation shallow
RECURSIVE Propagate(_, _, _, _)
Propagate(columns, lo, hi, carry) ==
  IF lo = hi
    THEN [bits |-> <<(columns[lo] + carry) % 2>>,
          carry |-> (columns[lo] + carry) \div 2]
    ELSE LET mid == (lo + hi) \div 2
             low == Propagate(columns, lo, mid, carry)
             high == Propagate(columns, mid + 1, hi, low.carry)
         IN  [bits |-> low.bits \o high.bits, carry |-> high.carry]

Carried(columns) ==
  IF columns = <<>>
    THEN <<>>
    ELSE LET p == Propagate(columns, 1, Len(columns), 0)
         IN  Normal(p.bits \o Bits(p.carry))

WideAdd(a, b) ==
  LET n == IF Len(a) > Len(b) THEN Len(a) ELSE Len(b)
  IN  Carried([i \in 1..n |-> BitAt(a, i) + BitAt(b, i)])

ShiftLeft(a, k) ==
  IF a = <<>> \/ k = 0 THEN a ELSE [i \in 1..k |-> 0] \o a

ShiftRight(a, k) == IF Len(a) <= k THEN <<>> ELSE SubSeq(a, k + 1, Len(a))

\* long multiplication: column i collects the products of weight 2^(i-1)
WideMul(a, b) ==
  IF a = <<>> \/ b = <<>>
    THEN <<>>
    ELSE Carried([i \in 1..(Len(a) + Len(b)) |->
                    Cardinality({j \in 1..Len(a) :
                                   a[j] = 1 /\ BitAt(b, i - j + 1) = 1})])

Reverse(a) == [i \in 1..Len(a) |-> a[Len(a) + 1 - i]]

\* long division by a small divisor d of the digits lo..hi of a number
\* written highest bit first, the remainder passed on to the lower bits
RECURSIVE Divide(_, _, _, _, _)
Divide(digits, d, lo, hi, remainder) ==
  IF lo = hi
    THEN [q |-> <<(2 * remainder + digits[lo]) \div d>>,
          r |-> (2 * remainder + digits[lo]) % d]
    ELSE LET mid == (lo + hi) \div 2
             first == Divide(digits, d, lo, mid, remainder)
             second == Divide(digits, d, mid + 1, hi, first.r)
         IN  [q |-> first.q \o second.q, r |-> second.r]

WideFloorDiv(a, d) ==
  IF a = <<>>
    THEN <<>>
    ELSE Normal(Reverse(Divide(Reverse(a), d, 1, Len(a), 0).q))

RECURSIVE WidePow10(_)
WidePow10(n) == IF n = 0 THEN <<1>> ELSE WideMul(WidePow10(n - 1), Bits(10))

\* a number written in hexadecimal digits, highest digit first
Hex(digits) ==
  Normal([i \in 1..(4 * Len(digits)) |->
            (digits[Len(digits) - ((i - 1) \div 4)] \div 2^((i - 1) % 4)) % 2])

\* the nearest double of a whole number: DoublePrecision significant bits,
\* ties to the even neighbour
RoundToDouble(a) ==
  IF Len(a) <= DoublePrecision
    THEN a
    ELSE LET k == Len(a) - DoublePrecision
             kept == SubSeq(a, k + 1, Len(a))
             half == a[k] = 1
             below == \E i \in 1..(k - 1) : a[i] = 1
             up == half /\ (below \/ kept[1] = 1)
         IN  ShiftLeft(IF up THEN WideAdd(kept, <<1>>) ELSE kept, k)

\* the double nearest to tenths/10, as m / 2^e:
\* 0.1 = 0x1.999999999999ap-4, 0.3 = 0x1.3333333333333p-2, 0.5 = 0x1p-1
Double(tenths) ==
  CASE tenths = 1 -> [m |-> Hex(<<1, 9, 9, 9, 9, 9, 9, 9, 9, 9, 9, 9, 9, 10>>),
                      e |-> 56]
    [] tenths = 2 -> [m |-> Hex(<<1, 9, 9, 9, 9, 9, 9, 9, 9, 9, 9, 9, 9, 10>>),
                      e |-> 55]
    [] tenths = 3 -> [m |-> Hex(<<1, 3, 3, 3, 3, 3, 3, 3, 3, 3, 3, 3, 3, 3>>),
                      e |-> 54]
    [] tenths = 4 -> [m |-> Hex(<<1, 9, 9, 9, 9, 9, 9, 9, 9, 9, 9, 9, 9, 10>>),
                      e |-> 54]
    [] tenths = 5 -> [m |-> <<1>>, e |-> 1]

\* int(balance * percentage) as Python computes it
FloatPercentOf(wide_balance, tenths) ==
  LET d == Double(tenths)
  IN  ShiftRight(RoundToDouble(WideMul(RoundToDouble(wide_balance), d.m)), d.e)

\* balances of 18 decimals: whole tokens plus a little dust
WideBalanceValues ==
  {WideAdd(WideMul(Bits(k), WidePow10(WideDecimals)), Bits(r)) :
     k \in WideTokens, r \in 0..WideDust}

\* the steps of a playbook that size an amount from the cached balance
SizingSteps ==
  {i \in 1..Len(Steps) : Steps[i].tenths > 0 /\ Steps[i].token \in Tokens}

\* a playbook about to size the amount of one of its steps, the cache
\* holding balances of 18 decimals
WideInit ==
  /\ command \in Playbooks
  /\ args = [token |-> "-", amount |-> NoAmount]
  /\ pc = "step"
  /\ step \in SizingSteps
  /\ cur = NoOp
  /\ \E b \in WideBalanceValues : balance = [t \in Tokens |-> b]
  /\ token_balances = balance
  /\ results = [k \in {"mint", "swap", "stake"} |-> <<>>]
  /\ error = "none"
  /\ elapsed = 0
  /\ outcome = "none"
  /\ txs = <<>>
  /\ allowance = [p \in AllowancePairs |-> 0]
  /\ block_number = 1

\* "swap_amount = int(balance * SWAP_PERCENTAGE)" and the like statements of
\* the playbooks
SizeAmount ==
  /\ pc = "step"
  /\ step \in SizingSteps
  /\ cur' = Op(Steps[step].op, "-", Steps[step].token, "-", "-",
               FloatPercentOf(token_balances[Steps[step].token],
                              Steps[step].tenths),
               "-", Steps[step].to)
  /\ pc' = "sized"
  /\ UNCHANGED <<command, args, step, token_balances, results, error, elapsed,
                 outcome, txs, chain>>

WideSpec == WideInit /\ [][SizeAmount]_vars

(***************************************************************************)
(* Properties.                                                             *)
(***************************************************************************)
\* transaction i has a success receipt at the required depth
IsConfirmed(i) ==
  /\ txs[i].status = "success"
  /\ block_number - txs[i].blockNumber >= TX_CONFIRMATIONS

ActFunctions == {"stake", "swapATHtoAUSD", "swapVANAtoVANAUSD"}

\* C1: approve_token called with an on-chain allowance >= amount broadcasts
\* no transaction and returns without entering a wait, for every token,
\* spender and amount.
C1_NoTransactionWhenAllowanceSuffices ==
  [][(pc = "approve" /\ allowance[<<cur.token, cur.spender>>] >= cur.amount)
       => (txs' = txs /\ pc' # "wait")]_vars

C1_Witness ==
  /\ pc = "act"
  /\ cur.kind \in {"swap", "stake"}
  /\ cur.amount > 0
  /\ cur.allowance_read >= cur.amount
  /\ cur.approve_tx = 0
  /\ \A i \in 1..Len(txs) : txs[i].step # step

\* C2: approve_token called with an on-chain allowance < amount broadcasts
\* exactly one transaction: approve on the token contract with the requested
\* spender and the requested amount; nothing more is broadcast while it waits.
C2_ExactlyOneApproveWithExactAmount ==
  [][/\ (pc = "approve" /\ allowance[<<cur.token, cur.spender>>] < cur.amount)
          => /\ Len(txs') = Len(txs) + 1
             /\ txs'[Len(txs')].fn = "approve"
             /\ txs'[Len(txs')].to = TokenAddress[cur.token]
             /\ txs'[Len(txs')].spender = cur.spender
             /\ txs'[Len(txs')].amount = cur.amount
             /\ pc' = "wait"
     /\ pc = "wait" => Len(txs') = Len(txs)]_vars

C2_Witness ==
  /\ pc = "wait"
  /\ Awaited.fn = "approve"
  /\ cur.allowance_read > 0
  /\ cur.allowance_read < cur.amount
  /\ Awaited.amount = cur.amount
  /\ Awaited.spender = cur.spender

\* C3: in a playbook, a step whose transaction is reverted or times out does
\* not abort the playbook.
C3_PlaybookSurvivesFailedStep ==
  (command \in Playbooks /\ outcome \in {"Reverted", "TimedOut"})
    => pc # "failed"

\* C4: run_auto_cycle, with every submitted transaction confirming, never
\* stops part-way: it does not end in an exception.
C4_AutoCycleCompletes ==
  (/\ command = "auto"
   /\ \A i \in 1..Len(txs) : IsConfirmed(i)
   /\ outcome \in {"none", "Confirmed"})
    => pc # "failed"

\* C5: every entry of the report names a transaction that was broadcast for
\* that kind of step, token and amount and has a success receipt at the
\* required confirmation depth.
C5_ReportOnlyConfirmed ==
  \A k \in DOMAIN results : \A n \in 1..Len(results[k]) :
    LET e == results[k][n] IN
    /\ e.tx_hash \in 1..Len(txs)
    /\ IsConfirmed(e.tx_hash)
    /\ txs[e.tx_hash].amount = e.amount
    /\ txs[e.tx_hash].token = e.token
    /\ k = "approve" => txs[e.tx_hash].fn = "approve"
    /\ k = "mint" => txs[e.tx_hash].fn = "mint"
    /\ k = "stake" => txs[e.tx_hash].fn = "stake"
    /\ k = "swap" => txs[e.tx_hash].fn \in {"swapATHtoAUSD", "swapVANAtoVANAUSD"}

C5_Witness ==
  /\ command = "maitrix"
  /\ Len(results["approve"]) > 0
  /\ Len(results["swap"]) > 0
  /\ Len(results["stake"]) > 0

\* C6: every transaction broadcast before the latest one is Confirmed: a
\* transaction is built only when all earlier ones have a success receipt at
\* the required depth, never after a revert or a timeout.
C6_OneUnresolvedAtATime ==
  \A i \in 1..(Len(txs) - 1) : IsConfirmed(i)

C6_Witness ==
  /\ Len(txs) >= 3
  /\ pc = "wait"
  /\ Awaited.status = "pending"

\* C7: a swap or stake transaction is broadcast only after its approve was
\* found unnecessary (allowance read >= amount) or was mined with success
\* at the required depth, for the same token, spender and amount.
C7_ActAfterApprove ==
  \A i \in 1..Len(txs) :
    txs[i].fn \in ActFunctions =>
      \/ /\ txs[i].approve_tx = 0
         /\ txs[i].allowance_read >= txs[i].amount
      \/ /\ txs[i].approve_tx \in 1..(i - 1)
         /\ LET a == txs[txs[i].approve_tx] IN
            /\ a.fn = "approve"
            /\ a.token = txs[i].token
            /\ a.spender = txs[i].to
            /\ a.amount = txs[i].amount
         /\ IsConfirmed(txs[i].approve_tx)

C7_Witness ==
  /\ Len(txs) >= 2
  /\ Awaited.fn \in ActFunctions
  /\ Awaited.approve_tx = Len(txs) - 1

\* C8: wait_for_transaction returns a receipt only at a poll where the
\* receipt has status success and is at least TX_CONFIRMATIONS deep; a poll
\* that sees a shallower receipt goes on waiting.
C8_SuccessOnlyAtDepth ==
  [][/\ (pc = "wait" /\ outcome' = "Confirmed")
          => /\ Awaited.status = "success"
             /\ block_number - Awaited.blockNumber >= TX_CONFIRMATIONS
     /\ (/\ pc = "wait"
         /\ Awaited.status = "success"
         /\ block_number - Awaited.blockNumber < TX_CONFIRMATIONS)
          => outcome' # "Confirmed" /\ pc' \in {"wait", "failed"}]_vars

C8_Witness ==
  /\ outcome = "Confirmed"
  /\ pc # "wait"
  /\ elapsed > 0
  /\ block_number - Awaited.blockNumber = TX_CONFIRMATIONS

\* C9: a poll that reads a receipt with status failure ends the wait as
\* Reverted (ValueError) at any depth, and a transaction with a failure
\* receipt is never reported Confirmed.
C9_RevertedImmediately ==
  [][(pc = "wait" /\ Awaited.status = "failed")
       => /\ outcome' # "Confirmed"
          /\ (~(elapsed > TX_TIMEOUT) /\ bot' # bot /\ outcome' # "RpcError")
               => (outcome' = "Reverted" /\ pc' = "failed"
                   /\ error' = "ValueError")]_vars

C9_Witness ==
  /\ outcome = "Reverted"
  /\ pc = "failed"
  /\ block_number = Awaited.blockNumber

\* C10: a wait whose transaction is not terminal (no receipt, or a receipt
\* below the required depth) ends only with the timeout error, never with
\* success, and the timeout error is raised only once the elapsed time
\* exceeds TX_TIMEOUT.
C10_TimeoutOnlyAfterWindow ==
  [][/\ (pc = "wait" /\ outcome' = "TimedOut") => elapsed > TX_TIMEOUT
     /\ (/\ pc = "wait"
         /\ \/ Awaited.status = "pending"
            \/ /\ Awaited.status = "success"
               /\ block_number - Awaited.blockNumber < TX_CONFIRMATIONS
         /\ pc' # "wait"
         /\ outcome' # "RpcError")
          => (outcome' = "TimedOut" /\ error' = "TimeoutError")]_vars

C10_Witness ==
  /\ outcome = "TimedOut"
  /\ elapsed > TX_TIMEOUT
  /\ Awaited.status = "success"

\* C11: with time advancing between polls, every wait_for_transaction call
\* ends, whatever the chain does (never mines, mines and reverts, mines but
\* never deep enough, mines and confirms); a wait that is not cut short by
\* an RPC error ends in exactly one of Confirmed (receipt returned),
\* Reverted (ValueError) and TimedOut (TimeoutError).
C11_WaitTerminates ==
  /\ (pc = "wait") ~> (pc # "wait")
  /\ [][(pc = "wait" /\ pc' # "wait" /\ outcome' # "RpcError")
          => \/ outcome' = "Confirmed" /\ pc' # "failed"
             \/ outcome' = "Reverted" /\ error' = "ValueError"
             \/ outcome' = "TimedOut" /\ error' = "TimeoutError"]_vars

\* a wait on a transaction the chain never mined has ended
C11_Witness ==
  /\ pc # "wait"
  /\ outcome = "TimedOut"
  /\ Awaited.status = "pending"

\* C12: the nonce of every transaction is the account's transaction count
\* on the chain when the transaction was built, so the nonces of the
\* transactions broadcast in one run are strictly increasing and no two
\* transactions carry the same nonce.
C12_NoncesStrictlyIncreasing ==
  /\ \A i \in 1..Len(txs) :
       txs[i].nonce = Cardinality({k \in 1..(i - 1) : txs[k].status # "pending"})
  /\ \A i, j \in 1..Len(txs) : i < j => txs[i].nonce < txs[j].nonce

\* a run that has broadcast three transactions, one after the other
C12_Witness ==
  /\ Len(txs) >= 3
  /\ txs[3].nonce = 2

\* C13: every broadcast transaction carries the configured gas price
\* (GAS_PRICE_GWEI) and the configured gas limit (GAS_LIMIT); none is sent
\* with an estimated or default gas value.
C13_ConfiguredGas ==
  \A i \in 1..Len(txs) :
    /\ txs[i].gasPrice = build_tx_params.gasPrice
    /\ txs[i].gas = build_tx_params.gas

\* C14: an RPC error raised while polling for the receipt or the block
\* number does not end the wait; the poll is retried until a terminal state
\* or the timeout.
C14_PollingErrorRetried ==
  [][(pc = "wait" /\ outcome' = "RpcError") => pc' = "wait"]_vars

\* C15: in the mint phase of the auto cycle the balance the loop looks at is
\* the one read from the chain at the start of the cycle; for each token the
\* loop reaches, a mint is attempted if and only if that balance is strictly
\* below the token's minimum, its amount is exactly twice the minimum, and a
\* token whose balance is at or above the minimum gets no transaction.
C15_MintIffBelowMinimum ==
  [][AtStep("auto_mint") =>
       LET t == Steps[step].token IN
       /\ token_balances[t] = balance[t]
       /\ IF balance[t] < MIN_BALANCE[t]
            THEN /\ pc' = "act"
                 /\ cur'.fn = "mint"
                 /\ cur'.token = t
                 /\ cur'.amount = 2 * MIN_BALANCE[t]
            ELSE /\ pc' = "step"
                 /\ step' = step + 1
                 /\ txs' = txs]_vars

\* ATH held exactly its minimum and got no mint; the first token below its
\* minimum got a mint transaction of twice the minimum
C15_Witness ==
  /\ command = "auto"
  /\ token_balances["ATH"] = MIN_BALANCE["ATH"]
  /\ Len(txs) >= 1
  /\ txs[1].fn = "mint"
  /\ txs[1].token = "LVLUSD"
  /\ txs[1].amount = 2 * MIN_BALANCE["LVLUSD"]

\* C16: the amount the auto cycle sizes for a swap is 30% of the cached
\* balance of the source token rounded down to an integer (100 x 10^18 gives
\* 30 x 10^18).
C16_SwapThirtyPercentRoundedDown ==
  (pc = "sized" /\ cur.kind = "auto_swap")
    => cur.amount =
         WideFloorDiv(WideMul(token_balances[cur.token], Bits(SWAP_PERCENTAGE)),
                      10)

\* C17: when the stake phase of the auto cycle sizes the stake of a token,
\* the cached balance it reads is the balance on the chain after the swaps
\* of the cycle (the cache is refreshed between the two phases), and the
\* amount handed to stake_token is 50% of it.
C17_StakeFromPostSwapBalance ==
  [][(AtStep("auto_stake") /\ Steps[step].token \in Tokens) =>
       LET t == Steps[step].token IN
       /\ token_balances[t] = balance[t]
       /\ balance[t] > 0 =>
            /\ pc' = "approve"
            /\ cur'.kind = "stake"
            /\ cur'.token = t
            /\ cur'.amount = PercentOf(balance[t], STAKE_PERCENTAGE)]_vars

\* the stake of AUSD has been sized after a swap of ATH into AUSD was
\* confirmed
C17_Witness ==
  /\ command = "auto"
  /\ pc = "approve"
  /\ cur.kind = "stake"
  /\ cur.token = "AUSD"
  /\ Len(results["swap"]) >= 1
  /\ results["swap"][1].to = "AUSD"
  /\ results["swap"][1].amount > 0
  /\ cur.amount = PercentOf(balance["AUSD"], STAKE_PERCENTAGE)
  /\ cur.amount > 0

\* C18: the amount step 1 of the scripted sequence sizes for the approve of
\* VANA is 40% of the VANA balance of the initial refresh rounded down to an
\* integer (10 x 10^18 gives 4 x 10^18).
C18_ApproveFortyPercentRoundedDown ==
  (pc = "sized" /\ command = "maitrix" /\ cur.kind = "approve"
     /\ cur.token = "VANA")
    => cur.amount =
         WideFloorDiv(WideMul(token_balances["VANA"],
                              Bits(MaitrixSteps[2].tenths)), 10)

\* C19: a step of the scripted sequence whose amount, computed from the
\* cached balance, is zero broadcasts nothing, adds no entry to the report
\* and hands over to the next step; with a VANA balance of 0 step 1 leaves
\* no approve entry and no transaction.
C19_ZeroAmountStepSkipped ==
  [][(/\ command = "maitrix"
      /\ pc = "step"
      /\ step \in 1..Len(MaitrixSteps)
      /\ MaitrixSteps[step].op # "refresh"
      /\ PercentOf(token_balances[MaitrixSteps[step].token],
                   MaitrixSteps[step].tenths) = 0)
       => /\ pc' = "step"
          /\ step' = step + 1
          /\ txs' = txs
          /\ results' = results]_vars

\* step 1 was skipped on a VANA balance of 0 and step 2 on an AUSD balance
\* too small for a positive amount: the sequence stands at step 3 (entry 4
\* of the table) and has sent nothing
C19_Witness ==
  /\ command = "maitrix"
  /\ pc = "step"
  /\ step = 4
  /\ token_balances["VANA"] = 0
  /\ token_balances["AUSD"] = SmallBalance
  /\ txs = <<>>
  /\ results["approve"] = <<>>
  /\ results["stake"] = <<>>

\* C20: in the scripted sequence the balance cache is re-read only at the
\* start, after the two swaps (steps 3 and 4) and at the end; every
\* transaction of steps 1-3 is sized from the cache of the initial refresh
\* and every transaction of steps 5-10 from the cache of the refresh after
\* step 4, so the stakes in POOL1, POOL2 and POOL3 all carry the same ATH
\* amount, 10% of the cached ATH balance, whatever the chain holds by then.
C20_RefreshPointsOnly ==
  /\ [][(command = "maitrix" /\ token_balances' # token_balances)
          => /\ AtStep("refresh")
             /\ \/ step \in {1, Len(MaitrixSteps)}
                \/ MaitrixSteps[step - 1].op = "swap"]_vars
  /\ [](command = "maitrix" =>
          /\ \A i \in 1..Len(txs) :
               (step <= 5 \/ (txs[i].step >= 8 /\ step <= Len(MaitrixSteps)))
                 => txs[i].amount =
                      PercentOf(token_balances[txs[i].token],
                                MaitrixSteps[txs[i].step].tenths)
          /\ \A i, j \in 1..Len(txs) :
               (/\ MaitrixSteps[txs[i].step].op = "pool_stake"
                /\ MaitrixSteps[txs[j].step].op = "pool_stake")
                 => txs[i].amount = txs[j].amount)

\* the stake in POOL3 has been mined with the amount of the first two pool
\* stakes, which the chain had already taken from the ATH balance
C20_Witness ==
  /\ command = "maitrix"
  /\ step = Len(MaitrixSteps) - 1
  /\ Len(txs) >= 1
  /\ Awaited.fn = "stake"
  /\ Awaited.status = "success"
  /\ Awaited.amount > 0
  /\ Awaited.amount = PercentOf(token_balances["ATH"], 1)
  /\ balance["ATH"] = token_balances["ATH"] - 3 * Awaited.amount

\* C21: the transactions of the scripted sequence appear in the fixed order
\* 1 approve VANA for the router, 2 stake AUSD, 3 swap ATH->AUSD, 4 swap
\* VANA->VANAUSD, 5 stake VUSD, 6 stake AUSD, 7-8 stake ATH in POOL1 and
\* POOL2, 9 approve VANAUSD, 10 stake ATH in POOL3: a transaction of a later
\* step is never broadcast before one of an earlier step, and no step is
\* executed twice (a step sends at most its approve and then its act).
C21_FixedStepOrder ==
  command = "maitrix" =>
    LET order ==
          << [fn |-> "approve", token |-> "VANA", party |-> "0xEfbA"],
             [fn |-> "stake", token |-> "AUSD", party |-> "0x054d"],
             [fn |-> "swapATHtoAUSD", token |-> "ATH", party |-> "0x2cFD"],
             [fn |-> "swapVANAtoVANAUSD", token |-> "VANA", party |-> "0xEfbA"],
             [fn |-> "stake", token |-> "VUSD", party |-> "0x5bb9"],
             [fn |-> "stake", token |-> "AUSD", party |-> "0x054d"],
             [fn |-> "stake", token |-> "ATH", party |-> "0x3988"],
             [fn |-> "stake", token |-> "ATH", party |-> "0x5de3"],
             [fn |-> "approve", token |-> "VANAUSD",
              party |-> TokenAddress["VANAUSD"]],
             [fn |-> "stake", token |-> "ATH", party |-> "0x2608"] >>
        number(i) ==
          Cardinality({k \in 1..i : MaitrixSteps[k].op # "refresh"})
    IN  /\ \A i \in 1..Len(txs) :
             LET n == number(txs[i].step) IN
             /\ n \in 1..Len(order)
             /\ txs[i].token = order[n].token
             /\ IF txs[i].fn = "approve"
                  THEN txs[i].spender = order[n].party
                  ELSE /\ txs[i].fn = order[n].fn
                       /\ txs[i].to = order[n].party
        /\ \A i, j \in 1..Len(txs) :
             i < j =>
               /\ txs[i].step <= txs[j].step
               /\ txs[i].step = txs[j].step =>
                    /\ j = i + 1
                    /\ txs[i].fn = "approve"
                    /\ txs[j].fn # "approve"

\* the sequence has reached its last step after transactions of steps 1, 2
\* and 3 and broadcast the stake in POOL3
C21_Witness ==
  /\ command = "maitrix"
  /\ Len(txs) >= 4
  /\ txs[1].fn = "approve" /\ txs[1].token = "VANA"
  /\ \E i \in 1..Len(txs) : txs[i].fn = "stake" /\ txs[i].token = "AUSD"
  /\ \E i \in 1..Len(txs) : txs[i].fn = "swapATHtoAUSD"
  /\ Awaited.fn = "stake"
  /\ Awaited.to = STAKING_ADDRESSES["POOL3"]

\* C22: swap_token for a pair with no configured router and stake_token for
\* a token with no configured pool write nothing to the chain (no approve,
\* no swap or stake is broadcast) and return at once with the failure
\* result None: the call ends with no transaction and no confirmation,
\* while a call that ends normally for a configured pair or pool ends with
\* its transaction confirmed.
C22_NoRouteNoPoolNoWrite ==
  /\ [][(pc = "idle" /\ pc' # "idle") =>
          LET configured ==
                IF command' = "swap"
                  THEN SwapKey(args'.token, args'.to) \in DOMAIN SWAP_ADDRESSES
                  ELSE args'.token \in DOMAIN STAKING_ADDRESSES
          IN  IF configured
                THEN pc' = "approve"
                ELSE /\ pc' = "done"
                     /\ txs' = txs
                     /\ chain' = chain
                     /\ outcome' = "none"]_vars
  /\ [](pc = "done" =>
          LET configured ==
                IF command = "swap"
                  THEN SwapKey(args.token, args.to) \in DOMAIN SWAP_ADDRESSES
                  ELSE args.token \in DOMAIN STAKING_ADDRESSES
          IN  IF configured
                THEN /\ outcome = "Confirmed"
                     /\ txs # <<>>
                     /\ IsConfirmed(Len(txs))
                ELSE /\ outcome = "none"
                     /\ txs = <<>>)

\* a swap of ATH into VUSD, for which no router is configured, has returned
C22_Witness ==
  /\ pc = "done"
  /\ command = "swap"
  /\ args.token = "ATH"
  /\ args.to = "VUSD"
  /\ txs = <<>>
  /\ balance["ATH"] > 0

\* C23: a single-operation invocation (mint, swap or stake) that ends with
\* exit code 0 has had the transaction of its operation confirmed; whenever
\* the operation did not succeed (reverted, timed out, no swap pair, no
\* staking pool) the exit code is not 0.
C23_ExitZeroOnlyWhenConfirmed ==
  (command \in Operations /\ pc = "done") =>
    /\ txs # <<>>
    /\ Awaited.fn \in ActFunctions \cup {"mint"}
    /\ IsConfirmed(Len(txs))

\* C24: the balance read broadcasts no transaction and changes no chain
\* state; a read made when the cache already holds what the chain holds
\* (a second read with no operation and no chain change in between) leaves
\* the cached balance, and so the formatted value, of every token as it was.
C24_BalanceReadIdempotent ==
  [][AtStep("refresh") =>
       /\ txs' = txs
       /\ chain' = chain
       /\ token_balances' = balance
       /\ token_balances = balance =>
            \A t \in Tokens :
              /\ token_balances'[t] = token_balances[t]
              /\ format_amount(token_balances'[t], Decimals)
                   = format_amount(token_balances[t], Decimals)]_vars

\* the balance command has read the balances a second time after the read
\* made when the bot was constructed
C24_Witness ==
  /\ command = "balance"
  /\ pc = "done"
  /\ token_balances = balance
  /\ token_balances["ATH"] > 0
  /\ txs = <<>>

\* C25: every signed transaction is broadcast exactly once: a send adds one
\* transaction with a nonce no earlier transaction carries, and while
\* wait_for_transaction polls, also when the transaction is not found on
\* every poll until the timeout, nothing is signed or broadcast again.
C25_BroadcastExactlyOnce ==
  /\ [][/\ Len(txs') \in {Len(txs), Len(txs) + 1}
        /\ Len(txs') = Len(txs) + 1 =>
             /\ pc \in {"approve", "act"}
             /\ \A i \in 1..Len(txs) :
                  /\ txs'[i] = txs[i]
                  /\ txs'[i].nonce # txs'[Len(txs')].nonce
        /\ pc = "wait" => Len(txs') = Len(txs)]_vars
  /\ [](\A i, j \in 1..Len(txs) : txs[i].nonce = txs[j].nonce => i = j)

\* the only transaction of the run was never found and its wait timed out
C25_Witness ==
  /\ Len(txs) = 1
  /\ txs[1].status = "pending"
  /\ pc = "failed"
  /\ error = "TimeoutError"
  /\ elapsed > TX_TIMEOUT

\* C26: in swap_token and stake_token, when the wait for the approve ends
\* with the approve reverted or timed out, the operation ends with the
\* error (ValueError or TimeoutError) and the swap or stake transaction is
\* never built or broadcast.
C26_ApproveFailureEndsOperation ==
  /\ [][(/\ pc = "wait"
         /\ Awaited.fn = "approve"
         /\ cur.kind \in {"swap", "stake"}
         /\ outcome' \in {"Reverted", "TimedOut"})
          => /\ pc' = "failed"
             /\ error' = IF outcome' = "Reverted" THEN "ValueError"
                                                  ELSE "TimeoutError"
             /\ txs' = txs]_vars
  /\ [][pc = "failed" => (txs' = txs /\ pc' = "failed")]_vars

\* a stake ended on the revert of its approve, which is the last
\* transaction of the run
C26_Witness ==
  /\ pc = "failed"
  /\ cur.kind = "stake"
  /\ outcome = "Reverted"
  /\ Awaited.fn = "approve"
  /\ Awaited.status = "failed"

ApproveOfVanaConfirmed ==
  /\ command = "maitrix"
  /\ Len(txs) >= 1
  /\ txs[1].fn = "approve"
  /\ txs[1].token = "VANA"
  /\ txs[1].spender = SWAP_ADDRESSES["VANA_TO_VANAUSD"]
  /\ IsConfirmed(1)

\* the transactions broadcast by step 4, the swap of VANA
SentByStepFour ==
  {j \in 1..Len(txs) :
     /\ Steps[txs[j].step].op = "swap"
     /\ Steps[txs[j].step].token = "VANA"}

\* C28: in the scripted sequence, when step 1's approve of 40% of the VANA
\* balance for the VANA_TO_VANAUSD router was confirmed and neither the VANA
\* balance nor that allowance has changed since, step 4 (swap 20% of VANA)
\* finds the allowance sufficient: its approve_token sends nothing, and
\* step 4 broadcasts exactly one transaction, the swap, so that no second
\* approve of VANA exists.
C28_SwapOfVanaNeedsNoSecondApprove ==
  /\ [][(/\ ApproveOfVanaConfirmed
         /\ pc = "approve"
         /\ cur.fn = "swapVANAtoVANAUSD"
         /\ allowance[<<"VANA", SWAP_ADDRESSES["VANA_TO_VANAUSD"]>>] = txs[1].amount
         /\ txs[1].amount = PercentOf(token_balances["VANA"], 4))
          => (pc' = "act" /\ txs' = txs /\ cur'.amount <= txs[1].amount)]_vars
  /\ [](ApproveOfVanaConfirmed =>
         /\ \A j \in SentByStepFour : txs[j].fn = "swapVANAtoVANAUSD"
         /\ Cardinality(SentByStepFour) <= 1
         /\ \A j \in 2..Len(txs) :
              ~(txs[j].fn = "approve" /\ txs[j].token = "VANA")
         /\ (cur.fn = "swapVANAtoVANAUSD" /\ pc \in {"wait", "failed"})
              => /\ Cardinality(SentByStepFour) = 1
                 /\ Awaited.fn = "swapVANAtoVANAUSD"
                 /\ Awaited.amount = PercentOf(token_balances["VANA"], 2))

\* step 1 approved 40% of the VANA balance and the approve was confirmed;
\* step 4 has sent the swap of 20% as the only transaction of the step
C28_Witness ==
  /\ ApproveOfVanaConfirmed
  /\ txs[1].amount = PercentOf(token_balances["VANA"], 4)
  /\ cur.fn = "swapVANAtoVANAUSD"
  /\ pc = "wait"
  /\ Awaited.fn = "swapVANAtoVANAUSD"
  /\ Awaited.amount = PercentOf(token_balances["VANA"], 2)
  /\ Cardinality(SentByStepFour) = 1
  /\ \A j \in 2..Len(txs) : txs[j].fn # "approve"

====
